---- MODULE Spec2Model ----
(***************************************************************************)
(* SFMersenneTwister (SFMT.cpp): the SIMD-oriented Fast Mersenne Twister   *)
(* as used by CvGameCoreDLL.  The model keeps the generator's 32-bit       *)
(* arithmetic: a uint32_t is the pair <<lo, hi>> of its 16-bit halves      *)
(* (value lo + 65536 * hi), so that every sum, product and shift wraps     *)
(* modulo 2^32 exactly as the C code does.                                 *)
(***************************************************************************)
EXTENDS Integers, Sequences, FiniteSets, TLC

(***************************************************************************)
(* uint32_t arithmetic                                                     *)
(***************************************************************************)
RECURSIVE XorBits(_, _, _)
XorBits(a, b, n) ==
    IF n = 0 THEN 0
    ELSE ((a + b) % 2) + 2 * XorBits(a \div 2, b \div 2, n - 1)

RECURSIVE AndBits(_, _, _)
AndBits(a, b, n) ==
    IF n = 0 THEN 0
    ELSE ((a % 2) * (b % 2)) + 2 * AndBits(a \div 2, b \div 2, n - 1)

\* byte-wide tables of ^ and &, evaluated once
XorTab == [a \in 0..255 |-> [b \in 0..255 |-> XorBits(a, b, 8)]]

AndTab == [a \in 0..255 |-> [b \in 0..255 |-> AndBits(a, b, 8)]]

Xor16(a, b) == XorTab[a % 256][b % 256] + 256 * XorTab[a \div 256][b \div 256]

And16(a, b) == AndTab[a % 256][b % 256] + 256 * AndTab[a \div 256][b \div 256]

\* 2^n for n in 0..16
Pow2(n) == <<1, 2, 4, 8, 16, 32, 64, 128, 256, 512, 1024, 2048, 4096, 8192,
             16384, 32768, 65536>>[n + 1]

\* the uint32_t with the given 16-bit halves (hi first, as in a hex literal)
U32(hi, lo) == <<lo, hi>>

\* the uint32_t of a non-negative int
ToU32(n) == <<n % 65536, (n \div 65536) % 65536>>

\* the uint32_t an int converts to (negative values wrap modulo 2^32)
IntToU32(n) ==
    IF n >= 0 THEN ToU32(n)
    ELSE LET m == -(n + 1)   \* ~n, non-negative
         IN  <<65535 - (m % 65536), 65535 - ((m \div 65536) % 65536)>>

Zero32 == <<0, 0>>

Xor32(x, y) == <<Xor16(x[1], y[1]), Xor16(x[2], y[2])>>

And32(x, y) == <<And16(x[1], y[1]), And16(x[2], y[2])>>

Add32(x, y) ==
    LET s == x[1] + y[1]
    IN  <<s % 65536, (x[2] + y[2] + (s \div 65536)) % 65536>>

\* x - y modulo 2^32
Sub32(x, y) ==
    LET d == x[1] - y[1]
        b == IF d < 0 THEN 1 ELSE 0
    IN  <<(d + 65536) % 65536, (x[2] - y[2] - b + 131072) % 65536>>

\* x >> k, 0 <= k <= 31
Shr32(x, k) ==
    IF k >= 16 THEN <<x[2] \div Pow2(k - 16), 0>>
    ELSE <<(x[1] \div Pow2(k)) + (x[2] % Pow2(k)) * Pow2(16 - k), x[2] \div Pow2(k)>>

\* x << k modulo 2^32, 0 <= k <= 31
Shl32(x, k) ==
    IF k >= 16 THEN <<0, (x[1] % Pow2(32 - k)) * Pow2(k - 16)>>
    ELSE <<(x[1] % Pow2(16 - k)) * Pow2(k),
           ((x[2] % Pow2(16 - k)) * Pow2(k)) + (x[1] \div Pow2(16 - k))>>

\* the 32-bit product of two 16-bit numbers, through 8-bit limbs
Mul16(a, b) ==
    LET t  == (a \div 256) * b
        lo == (t % 256) * 256 + (a % 256) * b
    IN  <<lo % 65536, ((t \div 256) + (lo \div 65536)) % 65536>>

\* x * y modulo 2^32
Mul32(x, y) ==
    LET p == Mul16(x[1], y[1])
        q == Mul16(x[1], y[2])
        r == Mul16(x[2], y[1])
    IN  <<p[1], (p[2] + q[1] + r[1]) % 65536>>

\* bit k of x
Bit32(x, k) == IF k >= 16 THEN (x[2] \div Pow2(k - 16)) % 2 ELSE (x[1] \div Pow2(k)) % 2

\* the value the only element of a one-element set
The(S) == CHOOSE v \in S : TRUE

(***************************************************************************)
(* Parameter set (SFMT-params.h, SFMT-params19937.h)                       *)
(***************************************************************************)
SFMT_MEXP == 19937

SFMT_N == SFMT_MEXP \div 128 + 1

SFMT_N32 == SFMT_N * 4

SFMT_N64 == SFMT_N * 2

SFMT_PARITY1 == U32(0, 1)

SFMT_PARITY2 == U32(0, 0)

SFMT_PARITY3 == U32(0, 0)

SFMT_PARITY4 == U32(5065, 59012)

parity == <<SFMT_PARITY1, SFMT_PARITY2, SFMT_PARITY3, SFMT_PARITY4>>

(***************************************************************************)
(* The generator: sfmt_t { w128_t state[SFMT_N]; int idx; }.  psfmt32 is   *)
(* the state seen as SFMT_N32 uint32_t (C index k is psfmt32[k + 1]).      *)
(***************************************************************************)
InRange(k) == k >= 0 /\ k < SFMT_N32

\* an array of n uint32_t, each v
Words(n, v) == SubSeq([k \in 1..n |-> v], 1, n)

\* psfmt32[k]
Rd(s, k) == IF InRange(k) THEN s[k + 1] ELSE Zero32

\* psfmt32[k] = v
Wr(s, k, v) == IF InRange(k) THEN [s EXCEPT ![k + 1] = v] ELSE s

func1(x) == Mul32(Xor32(x, Shr32(x, 27)), ToU32(1664525))

\* func2 with the multiplier of func1
func2_multiplier_of_func1(x) == Mul32(Xor32(x, Shr32(x, 27)), ToU32(1664525))

func2(x) == Mul32(Xor32(x, Shr32(x, 27)), ToU32(1566083941))

\* x >> k for x an int held as its 32-bit pattern: a negative x is
\* shifted arithmetically (arith) or logically, as the compiler chooses
SignedShr(x, k, arith) ==
    IF arith /\ Bit32(x, 31) = 1
    THEN Xor32(Shr32(x, k), Shl32(U32(65535, 65535), 32 - k))
    ELSE Shr32(x, k)

\* inner ^= inner >> i, inner an int
FoldStep(inner, i, arith) == Xor32(inner, SignedShr(inner, i, arith))

\* the first loops of period_certification: the parity fold of words 0..3
ParityFold(s, arith) ==
    FoldStep(FoldStep(FoldStep(FoldStep(FoldStep(
        Xor32(Xor32(And32(Rd(s, 0), parity[1]), And32(Rd(s, 1), parity[2])),
              Xor32(And32(Rd(s, 2), parity[3]), And32(Rd(s, 3), parity[4]))),
        16, arith), 8, arith), 4, arith), 2, arith), 1, arith)[1] % 2

\* the pairs <<i, j>> period_certification's modification loops stop at
CertHits == {p \in (0..3) \X (0..31) : Bit32(parity[p[1] + 1], p[2]) = 1}

CertFirst ==
    CHOOSE p \in CertHits :
        \A q \in CertHits : p[1] < q[1] \/ (p[1] = q[1] /\ p[2] <= q[2])

\* period_certification without its modification loops
period_certification_check_only(s, arith) == s

\* period_certification whose modification loops lack the return: every set
\* bit of every parity word is flipped
period_certification_no_return(s, arith) ==
    IF ParityFold(s, arith) = 1 THEN s
    ELSE Wr(Wr(Wr(Wr(s, 0, Xor32(Rd(s, 0), parity[1])),
                     1, Xor32(Rd(s, 1), parity[2])),
                  2, Xor32(Rd(s, 2), parity[3])),
            3, Xor32(Rd(s, 3), parity[4]))

period_certification(s, arith) ==
    IF ParityFold(s, arith) = 1 THEN s
    ELSE IF CertHits = {} THEN s
    ELSE Wr(s, CertFirst[1], Xor32(Rd(s, CertFirst[1]), Shl32(ToU32(1), CertFirst[2])))

\* the loop of sfmt_init_gen_rand for i in from..to-1
RECURSIVE GenRandLoop(_, _, _)
GenRandLoop(s, from, to) ==
    IF from >= to THEN s
    ELSE IF to = from + 1 THEN
        LET p == Rd(s, from - 1)
        IN  Wr(s, from, Add32(Mul32(ToU32(1812433253), Xor32(p, Shr32(p, 30))),
                              IntToU32(from)))
    ELSE LET m == (from + to) \div 2
         IN  The({GenRandLoop(t, m, to) : t \in {GenRandLoop(s, from, m)}})

\* sfmt_init_gen_rand whose loop stops one word early (i < SFMT_N32 - 1)
InitGenRandWords_short(g, seed) ==
    GenRandLoop(Wr(g.state, 0, seed), 1, SFMT_N32 - 1)

\* sfmt_init_gen_rand up to the call of period_certification
InitGenRandWords(g, seed) == GenRandLoop(Wr(g.state, 0, seed), 1, SFMT_N32)

\* sfmt_init_gen_rand without m_sfmt.idx = SFMT_N32
sfmt_init_gen_rand_idx_kept(g, seed) ==
    LET pre == InitGenRandWords(g, seed)
    IN  [gs  |-> {[state |-> period_certification(pre, arith), idx |-> g.idx] :
                     arith \in BOOLEAN},
         pre |-> pre]

\* the outcomes gs are the instance after the call for either compilation
\* of the signed shift in period_certification
sfmt_init_gen_rand(g, seed) ==
    LET pre == InitGenRandWords(g, seed)
    IN  [gs  |-> {[state |-> period_certification(pre, arith), idx |-> SFMT_N32] :
                     arith \in BOOLEAN},
         pre |-> pre]

\* sfmt_init_by_array without its memset
Memset_omitted(g, byte) == g

\* memset(&m_sfmt, byte, sizeof(sfmt_t)): every state byte and the bytes of idx
Memset(g, byte) ==
    [state |-> Words(SFMT_N32, U32(byte * 257, byte * 257)),
     idx   |-> (byte * 257 - (IF byte >= 128 THEN 65536 ELSE 0)) * 65536
               + (byte * 257)]

\* the lag sfmt_init_by_array chooses for a state of size 32-bit words
LagOf(size) ==
    IF size >= 623 THEN 11
    ELSE IF size >= 68 THEN 7
    ELSE IF size >= 39 THEN 5
    ELSE 3

lag == LagOf(SFMT_N * 4)

mid == (SFMT_N * 4 - lag) \div 2

\* init_key[j]
KeyRd(init_key, j) ==
    IF j >= 0 /\ j < Len(init_key) THEN init_key[j + 1] ELSE Zero32

\* count without the comparison with key_length + 1
CountOf_state_size(key_length) == SFMT_N32

\* count as sfmt_init_by_array sets it, before count--
CountOf(key_length) ==
    IF key_length + 1 > SFMT_N32 THEN key_length + 1 ELSE SFMT_N32

\* the writes of one mixing step at index i, with r the value of func1 or
\* func2 and rr what r becomes before the last two writes; the step is logged
ByArrayWrite(acc, phase, j, i, pm, pl, pp, r, rr, next) ==
    LET s  == acc.s
        s1 == Wr(s, pm, IF phase = 3 THEN Xor32(Rd(s, pm), r) ELSE Add32(Rd(s, pm), r))
        s2 == Wr(s1, pl, IF phase = 3 THEN Xor32(Rd(s1, pl), rr) ELSE Add32(Rd(s1, pl), rr))
        s3 == Wr(s2, i, rr)
    IN  [s |-> s3, i |-> next,
         log |-> Append(acc.log,
                    [phase |-> phase, j |-> j, i |-> i,
                     key |-> IF phase = 1 THEN j ELSE -1, r |-> r, rr |-> rr,
                     at |-> <<i, pm, pl, pp>>,
                     old |-> <<Rd(s, i), Rd(s, pm), Rd(s, pl), Rd(s, pp)>>,
                     new |-> <<Rd(s3, i), Rd(s3, pm), Rd(s3, pl)>>])]

\* r after the step's injection: r += key_length, r += init_key[j] + i,
\* r += i or r -= i
Inject(phase, r, i, j, init_key, key_length) ==
    IF phase = 0 THEN Add32(r, IntToU32(key_length))
    ELSE IF phase = 1 THEN Add32(r, Add32(KeyRd(init_key, j), IntToU32(i)))
    ELSE IF phase = 2 THEN Add32(r, IntToU32(i))
    ELSE Sub32(r, IntToU32(i))

ByArrayMix(acc, phase, j, i, pm, pl, pp, r, init_key, key_length, next) ==
    ByArrayWrite(acc, phase, j, i, pm, pl, pp, r,
                 Inject(phase, r, i, j, init_key, key_length), next)

\* one mixing step of sfmt_init_by_array.  phase 0 is the step before the
\* loops (index 0, mid and mid + lag are not reduced modulo SFMT_N32);
\* phase 1 is an iteration of the loop that reads init_key[j], phase 2 of the
\* loop that follows it, phase 3 of the func2 loop
ByArrayStep(acc, phase, j, init_key, key_length) ==
    ByArrayMix(acc, phase, j, acc.i,
        IF phase = 0 THEN mid ELSE (acc.i + mid) % SFMT_N32,
        IF phase = 0 THEN mid + lag ELSE (acc.i + mid + lag) % SFMT_N32,
        IF phase = 0 THEN SFMT_N32 - 1 ELSE (acc.i + SFMT_N32 - 1) % SFMT_N32,
        IF phase = 3
        THEN func2(Add32(Add32(Rd(acc.s, acc.i),
                               Rd(acc.s, (acc.i + mid) % SFMT_N32)),
                         Rd(acc.s, (acc.i + SFMT_N32 - 1) % SFMT_N32)))
        ELSE func1(Xor32(Xor32(Rd(acc.s, acc.i),
                               Rd(acc.s, IF phase = 0 THEN mid
                                         ELSE (acc.i + mid) % SFMT_N32)),
                         Rd(acc.s, (acc.i + SFMT_N32 - 1) % SFMT_N32))),
        init_key, key_length,
        IF phase = 0 THEN 1 ELSE (acc.i + 1) % SFMT_N32)

\* the loop that reads init_key without its condition j < key_length
KeyLoopEnd_unchecked(key_length) == CountOf(key_length) - 1

\* the last iteration of the loop that reads init_key
KeyLoopEnd(key_length) ==
    IF key_length < CountOf(key_length) - 1 THEN key_length
    ELSE CountOf(key_length) - 1

\* the n-th mixing step of a call, n = 0 for the step before the loops: the
\* two func1 loops run j over 0 .. count - 1 (count after count--), the
\* func2 loop runs j over 0 .. SFMT_N32 - 1
ByArrayAt(acc, n, init_key, key_length) ==
    ByArrayStep(acc,
        IF n = 0 THEN 0
        ELSE IF n - 1 < KeyLoopEnd(key_length) THEN 1
        ELSE IF n - 1 < CountOf(key_length) - 1 THEN 2
        ELSE 3,
        IF n = 0 THEN 0
        ELSE IF n - 1 < CountOf(key_length) - 1 THEN n - 1
        ELSE n - CountOf(key_length),
        init_key, key_length)

\* the mixing steps from .. to-1 of a call
RECURSIVE ByArrayLoop(_, _, _, _, _)
ByArrayLoop(acc, from, to, init_key, key_length) ==
    IF from >= to THEN acc
    ELSE IF to = from + 1 THEN ByArrayAt(acc, from, init_key, key_length)
    ELSE LET m == (from + to) \div 2
         IN  The({ByArrayLoop(t, m, to, init_key, key_length) :
                     t \in {ByArrayLoop(acc, from, m, init_key, key_length)}})

\* sfmt_init_by_array up to the call of period_certification
ByArrayRun(g, init_key, key_length) ==
    ByArrayLoop([s |-> Memset(g, 139).state, i |-> 0, log |-> <<>>],
                0, CountOf(key_length) + SFMT_N32, init_key, key_length)

sfmt_init_by_array(g, init_key, key_length) ==
    LET run == ByArrayRun(g, init_key, key_length)
    IN  [gs  |-> {[state |-> period_certification(run.s, arith), idx |-> SFMT_N32] :
                     arith \in BOOLEAN},
         pre |-> run.s, log |-> run.log]

(***************************************************************************)
(* State recursion (SFMT-sse2-msc.h, SFMT-params19937.h).  A w128_t is the *)
(* tuple of its four uint32_t lanes u[0..3], lowest first.                 *)
(***************************************************************************)
SFMT_POS1 == 122

SFMT_SL1 == 18

SFMT_SL2 == 1

SFMT_SR1 == 11

SFMT_SR2 == 1

SFMT_MSK1 == U32(57343, 65519)

SFMT_MSK2 == U32(56830, 52095)

SFMT_MSK3 == U32(49146, 65535)

SFMT_MSK4 == U32(49151, 65526)

sse2_param_mask == <<SFMT_MSK1, SFMT_MSK2, SFMT_MSK3, SFMT_MSK4>>

\* lane k of _mm_srli_si128(x, n): the 128-bit value shifted right by n bytes
mm_srli_si128(x, n, k) ==
    IF k = 4 THEN Shr32(x[4], 8 * n)
    ELSE Xor32(Shr32(x[k], 8 * n), Shl32(x[(k % 4) + 1], 32 - 8 * n))

\* lane k of _mm_slli_si128(x, n): the 128-bit value shifted left by n bytes
mm_slli_si128(x, n, k) ==
    IF k = 1 THEN Shl32(x[1], 8 * n)
    ELSE Xor32(Shl32(x[k], 8 * n), Shr32(x[((k + 2) % 4) + 1], 32 - 8 * n))

\* mm_recursion: z = (c >> SR2 bytes) ^ a ^ (d << SL1) ^ (a << SL2 bytes)
\*                   ^ ((b >> SR1) & mask), the bit shifts lane by lane
mm_recursion(a, b, c, d) ==
    SubSeq([k \in 1..4 |->
              Xor32(Xor32(Xor32(mm_srli_si128(c, SFMT_SR2, k), a[k]),
                          Shl32(d[k], SFMT_SL1)),
                    Xor32(mm_slli_si128(a, SFMT_SL2, k),
                          And32(Shr32(b[k], SFMT_SR1), sse2_param_mask[k])))],
           1, 4)

\* the w128_t at index i of a memory of uint32_t
Load128(m, i) == <<m[4 * i + 1], m[4 * i + 2], m[4 * i + 3], m[4 * i + 4]>>

Store128(m, i, v) ==
    [m EXCEPT ![4 * i + 1] = v[1], ![4 * i + 2] = v[2],
              ![4 * i + 3] = v[3], ![4 * i + 4] = v[4]]

\* the effect of one recursion step of gen_rand_array that computed r:
\* array[i] = r, in the last loop (ph 4) also pstate[i + N - size] = r
GenArrayStore(acc, ph, i, size, r) ==
    [st  |-> IF ph = 4 THEN Store128(acc.st, i + SFMT_N - size, r) ELSE acc.st,
     arr |-> Store128(acc.arr, i, r), r1 |-> acc.r2, r2 |-> r]

\* one iteration of gen_rand_array: ph 1..3 are its three recursion loops,
\* ph 0 the loop that copies array[i + size - N] to pstate[i], ph 4 the last
\* loop
GenArrayStep(acc, ph, i, size) ==
    IF ph = 0
    THEN [acc EXCEPT !.st = Store128(acc.st, i, Load128(acc.arr, i + size - SFMT_N))]
    ELSE GenArrayStore(acc, ph, i, size,
            mm_recursion(
                IF ph <= 2 THEN Load128(acc.st, i) ELSE Load128(acc.arr, i - SFMT_N),
                IF ph = 1 THEN Load128(acc.st, i + SFMT_POS1)
                ELSE Load128(acc.arr, i + SFMT_POS1 - SFMT_N),
                acc.r1, acc.r2))

\* where the third recursion loop ends and how many words the copy loop moves
Loop3End(size) == IF size - SFMT_N > SFMT_N THEN size - SFMT_N ELSE SFMT_N

CopyCount(size) == IF 2 * SFMT_N - size > 0 THEN 2 * SFMT_N - size ELSE 0

\* the n-th iteration of a call of gen_rand_array, counted through its loops
\* in program order: i < N - POS1, i < N, i < size - N, the copy loop
\* j < 2N - size, and the last loop i < size
GenArrayAt(acc, n, size) ==
    GenArrayStep(acc,
        IF n < SFMT_N - SFMT_POS1 THEN 1
        ELSE IF n < SFMT_N THEN 2
        ELSE IF n < Loop3End(size) THEN 3
        ELSE IF n < Loop3End(size) + CopyCount(size) THEN 0
        ELSE 4,
        IF n < Loop3End(size) THEN n
        ELSE IF n < Loop3End(size) + CopyCount(size) THEN n - Loop3End(size)
        ELSE n - CopyCount(size),
        size)

RECURSIVE GenArrayLoop(_, _, _, _)
GenArrayLoop(acc, from, to, size) ==
    IF from >= to THEN acc
    ELSE IF to = from + 1 THEN GenArrayAt(acc, from, size)
    ELSE LET m == (from + to) \div 2
         IN  The({GenArrayLoop(t, m, to, size) :
                     t \in {GenArrayLoop(acc, from, m, size)}})

\* gen_rand_array(array, size): size w128_t are written to array, and the
\* last SFMT_N of them are the new state
gen_rand_array(pstate, array, size) ==
    GenArrayLoop([st |-> pstate, arr |-> array,
                  r1 |-> Load128(pstate, SFMT_N - 2),
                  r2 |-> Load128(pstate, SFMT_N - 1)],
                 0, size + CopyCount(size), size)

(***************************************************************************)
(* Bulk fill and comparison                                                *)
(***************************************************************************)
\* a % n as C computes it (the sign of the dividend)
CRem(a, n) == IF a >= 0 THEN a % n ELSE -((-a) % n)

\* the outcome of a call an assert stopped: nothing was written
AssertFailed(g, array) == [g |-> g, array |-> array, failed |-> TRUE, gen |-> FALSE]

sfmt_fill_array32(g, array, size) ==
    IF g.idx # SFMT_N32 THEN AssertFailed(g, array)
    ELSE IF CRem(size, 4) # 0 THEN AssertFailed(g, array)
    ELSE IF ~(size >= SFMT_N32) THEN AssertFailed(g, array)
    ELSE LET r == gen_rand_array(g.state, array, size \div 4)
         IN  [g |-> [state |-> r.st, idx |-> SFMT_N32], array |-> r.arr,
              failed |-> FALSE, gen |-> TRUE]

\* sfmt_fill_array64 without assert(size % 2 == 0)
sfmt_fill_array64_odd_size(g, array, size) ==
    IF g.idx # SFMT_N32 THEN AssertFailed(g, array)
    ELSE IF ~(size >= SFMT_N64) THEN AssertFailed(g, array)
    ELSE LET r == gen_rand_array(g.state, array, size \div 2)
         IN  [g |-> [state |-> r.st, idx |-> SFMT_N32], array |-> r.arr,
              failed |-> FALSE, gen |-> TRUE]

sfmt_fill_array64(g, array, size) ==
    IF g.idx # SFMT_N32 THEN AssertFailed(g, array)
    ELSE IF CRem(size, 2) # 0 THEN AssertFailed(g, array)
    ELSE IF ~(size >= SFMT_N64) THEN AssertFailed(g, array)
    ELSE LET r == gen_rand_array(g.state, array, size \div 2)
         IN  [g |-> [state |-> r.st, idx |-> SFMT_N32], array |-> r.arr,
              failed |-> FALSE, gen |-> TRUE]

\* idxof as a big-endian build defines it: i ^ 1
idxof_big_endian(i) == IF i % 2 = 0 THEN i + 1 ELSE i - 1

\* the index of 32-bit word i of the little-endian layout
idxof(i) == i

\* array[k] of a buffer read as uint32_t
ReadU32(m, k) == m[k + 1]

\* array[j] of a buffer read as uint64_t: <<low 32 bits, high 32 bits>>
ReadU64(m, j) == <<m[idxof(2 * j) + 1], m[idxof(2 * j + 1) + 1]>>

\* the 16 bytes of a w128_t, lowest first
Bytes128(v) ==
    [k \in 0..15 |->
        LET h == v[(k \div 4) + 1][((k % 4) \div 2) + 1]
        IN  IF k % 2 = 0 THEN h % 256 ELSE h \div 256]

\* _mm_movemask_epi8(_mm_cmpeq_epi8(x, y)): bit k is set iff byte k agrees
CmpEqMask(x, y) ==
    LET bx == Bytes128(x)
        by == Bytes128(y)
        RECURSIVE Sum(_)
        Sum(k) == IF k > 15 THEN 0
                  ELSE (IF bx[k] = by[k] THEN Pow2(k) ELSE 0) + Sum(k + 1)
    IN  Sum(0)

\* SFMersenneTwister::operator==
OpEq(a, b) ==
    IF a.idx # b.idx THEN FALSE
    ELSE \A i \in 0..(SFMT_N - 1) :
            CmpEqMask(Load128(a.state, i), Load128(b.state, i)) = 65535

(***************************************************************************)
(* The host: two SFMersenneTwister instances g1 and g2, constructed with   *)
(* undefined contents and driven through the same sequence of calls.  A    *)
(* bulk fill is handed a buffer of BufWords zeroed uint32_t.  A failed     *)
(* assert ends the run.                                                    *)
(***************************************************************************)
VARIABLES
    g1, g2,           \* the instances [state, idx]
    out1, out2,       \* the buffers of the last call, as arrays of uint32_t
    seeded,           \* a seeding call has returned
    lockstep,         \* g1 and g2 were given the same calls since they were seeded
    failed1, failed2, \* an assert of the last call failed in g1 / g2
    gen1, gen2,       \* the last call ran gen_rand_array in g1 / g2
    call,             \* the last call: [op, size, seed, key]
    preCert,          \* the words g1's last seeding handed to period_certification
    trace,            \* the steps of g1's last sfmt_init_by_array
    calls             \* the number of calls made

vars == <<g1, g2, out1, out2, seeded, lockstep, failed1, failed2, gen1, gen2,
          call, preCert, trace, calls>>

\* the longest sequence of calls explored
MaxCalls == 3

BufWords == SFMT_N32 + 4

\* the buffer a caller hands to a bulk fill
Buffer == Words(BufWords, Zero32)

\* contents an instance may have before it is seeded
Garbage ==
    << [state |-> Words(SFMT_N32, Zero32), idx |-> 0],
       [state |-> Words(SFMT_N32, U32(65535, 65535)), idx |-> -1],
       [state |-> Words(SFMT_N32, U32(52685, 52685)), idx |-> SFMT_N32] >>

Seeds == {ToU32(1234), ToU32(4321)}

\* a key of the given length
KeyOf(len) == SubSeq([k \in 1..(len + 1) |-> ToU32(4660 + 17476 * (k - 1))], 1, len)

Keys == {KeyOf(0), KeyOf(4), KeyOf(SFMT_N32 + 1)}

Sizes32 == {SFMT_N32, SFMT_N32 - 4, SFMT_N32 + 2, SFMT_N32 + 3, 0, -4}

Sizes64 == {SFMT_N64, SFMT_N64 - 2, SFMT_N64 + 1, 0}

SizesCross == {SFMT_N32 + 4}

NoCall == [op |-> "none", size |-> 0, seed |-> Zero32, key |-> <<>>]

Init ==
    /\ \E p \in {<<1, 2>>, <<3, 2>>, <<3, 3>>} :
          g1 = Garbage[p[1]] /\ g2 = Garbage[p[2]]
    /\ out1 = Buffer
    /\ out2 = Buffer
    /\ seeded = FALSE
    /\ lockstep = FALSE
    /\ failed1 = FALSE /\ failed2 = FALSE
    /\ gen1 = FALSE /\ gen2 = FALSE
    /\ call = NoCall
    /\ preCert = <<>>
    /\ trace = <<>>
    /\ calls = 0

Running == ~failed1 /\ ~failed2 /\ calls < MaxCalls

InitGenRand(seed) ==
    /\ Running
    /\ \E r1 \in {sfmt_init_gen_rand(g1, seed)} :
       \E r2 \in {IF g2 = g1 THEN r1 ELSE sfmt_init_gen_rand(g2, seed)} :
           /\ g1' \in r1.gs
           /\ g2' \in r2.gs
           /\ preCert' = r1.pre
    /\ trace' = <<>>
    /\ seeded' = TRUE
    /\ lockstep' = TRUE
    /\ call' = [op |-> "init_gen_rand", size |-> 0, seed |-> seed, key |-> <<>>]
    /\ out1' = Buffer /\ out2' = Buffer
    /\ gen1' = FALSE /\ gen2' = FALSE
    /\ calls' = calls + 1
    /\ UNCHANGED <<failed1, failed2>>

InitByArray(key) ==
    /\ Running
    /\ \E r1 \in {sfmt_init_by_array(g1, key, Len(key))} :
       \E r2 \in {IF g2 = g1 THEN r1 ELSE sfmt_init_by_array(g2, key, Len(key))} :
           /\ g1' \in r1.gs
           /\ g2' \in r2.gs
           /\ preCert' = r1.pre
           /\ trace' = r1.log
    /\ seeded' = TRUE
    /\ lockstep' = TRUE
    /\ call' = [op |-> "init_by_array", size |-> 0, seed |-> Zero32, key |-> key]
    /\ out1' = Buffer /\ out2' = Buffer
    /\ gen1' = FALSE /\ gen2' = FALSE
    /\ calls' = calls + 1
    /\ UNCHANGED <<failed1, failed2>>

\* both instances have made the call; r1 and r2 are its outcomes
Filled(op, size, r1, r2) ==
    /\ g1' = r1.g /\ out1' = r1.array /\ failed1' = r1.failed /\ gen1' = r1.gen
    /\ g2' = r2.g /\ out2' = r2.array /\ failed2' = r2.failed /\ gen2' = r2.gen
    /\ call' = [op |-> op, size |-> size, seed |-> Zero32, key |-> <<>>]
    /\ calls' = calls + 1
    /\ UNCHANGED <<seeded, preCert, trace>>

FillArray32(size) ==
    /\ Running
    /\ \E r1 \in {sfmt_fill_array32(g1, Buffer, size)} :
       \E r2 \in {IF g2 = g1 THEN r1 ELSE sfmt_fill_array32(g2, Buffer, size)} :
           Filled("fill_array32", size, r1, r2)
    /\ UNCHANGED lockstep

FillArray64(size) ==
    /\ Running
    /\ \E r1 \in {sfmt_fill_array64(g1, Buffer, size)} :
       \E r2 \in {IF g2 = g1 THEN r1 ELSE sfmt_fill_array64(g2, Buffer, size)} :
           Filled("fill_array64", size, r1, r2)
    /\ UNCHANGED lockstep

\* g1 fills size uint32_t while g2 fills size / 2 uint64_t
FillCross(size) ==
    /\ Running
    /\ \E r1 \in {sfmt_fill_array32(g1, Buffer, size)} :
       \E r2 \in {sfmt_fill_array64(g2, Buffer, size \div 2)} :
           Filled("fill_cross", size, r1, r2)
    /\ lockstep' = FALSE

Next ==
    \/ \E seed \in Seeds : InitGenRand(seed)
    \/ \E key \in Keys : InitByArray(key)
    \/ \E size \in Sizes32 : FillArray32(size)
    \/ \E size \in Sizes64 : FillArray64(size)
    \/ \E size \in SizesCross : FillCross(size)

Spec == Init /\ [][Next]_vars

(***************************************************************************)
(* Properties.  The arithmetic they refer to is restated here from its     *)
(* definition (parity as a count of bits, multiplication as shift-and-add) *)
(* rather than taken from the operators above.                             *)
(***************************************************************************)
SeedingCall == call.op \in {"init_gen_rand", "init_by_array"}

\* the number of bits set in (word32[0..3] AND parity[0..3]) is odd
OddParity(s) ==
    Cardinality({p \in (0..3) \X (0..31) :
                    Bit32(s[p[1] + 1], p[2]) = 1 /\ Bit32(parity[p[1] + 1], p[2]) = 1})
        % 2 = 1

\* the number of bits in which x and y differ
DiffBits(x, y) == Cardinality({k \in 0..31 : Bit32(x, k) # Bit32(y, k)})

\* the sum mod 2^32 of x << k over the bits k in lo..hi that are set in c
RECURSIVE SumShifts(_, _, _, _)
SumShifts(x, c, lo, hi) ==
    IF lo = hi THEN (IF Bit32(c, lo) = 1 THEN Shl32(x, lo) ELSE Zero32)
    ELSE Add32(SumShifts(x, c, lo, (lo + hi) \div 2),
               SumShifts(x, c, (lo + hi) \div 2 + 1, hi))

\* (x * c) mod 2^32 by shift-and-add, c a natural number below 2^32
MulConst(x, c) == The({SumShifts(y, ToU32(c), 0, 31) : y \in {x}})

\* C1: after any completed seeding call, scalar or by array (the empty key
\* included), the parity fold of the state of either instance is 1: the
\* bits of word32[0..3] AND parity[0..3] XOR to 1.
C1_ParityAfterSeeding ==
    SeedingCall => OddParity(g1.state) /\ OddParity(g2.state)

C1_Witness ==
    /\ call.op = "init_gen_rand"
    /\ call.seed = ToU32(1234)
    /\ ~OddParity(preCert)
    /\ OddParity(g1.state)

\* C2: two instances with different contents before seeding, given the same
\* seeding call and then the same bulk fills, compare equal with operator==
\* after every call and were written the same buffer words; right after the
\* seeding call they agree in every state word and in Index.
C2_Determinism ==
    /\ (seeded /\ lockstep) =>
          OpEq(g1, g2) /\ out1 = out2 /\ failed1 = failed2 /\ gen1 = gen2
    /\ SeedingCall => g1 = g2

C2_Witness ==
    /\ seeded /\ lockstep
    /\ calls >= 3
    /\ call.op = "fill_array64"
    /\ gen1 /\ gen2
    /\ OpEq(g1, g2)
    /\ out1 = out2
    /\ out1 # Buffer

\* C3: from the return of the first seeding call on, Index is within
\* 0..SFMT_N32 at every operation boundary and in fact equals SFMT_N32, in
\* both instances.
C3_IndexAtBoundary ==
    seeded => /\ g1.idx \in 0..SFMT_N32 /\ g1.idx = SFMT_N32
              /\ g2.idx \in 0..SFMT_N32 /\ g2.idx = SFMT_N32

C3_Witness ==
    /\ seeded
    /\ calls >= 3
    /\ call.op = "fill_array32"
    /\ gen1 /\ gen2
    /\ g1.idx = SFMT_N32

\* the preconditions of the two bulk fills, from their description
Bad32(g, size) == g.idx # SFMT_N32 \/ size % 4 # 0 \/ size < SFMT_N32

Bad64(g, size) == g.idx # SFMT_N32 \/ size % 2 # 0 \/ size < SFMT_N64

\* a call on g with outcome gN, outN, failedN, genN
FailFast(bad, g, gN, outN, failedN, genN) ==
    IF bad THEN failedN /\ ~genN /\ gN = g /\ outN = Buffer
    ELSE ~failedN /\ genN

\* C4: a bulk fill whose Index is not SFMT_N32, whose size is not a multiple
\* of 4 (32-bit) or 2 (64-bit), or whose size is below SFMT_N32 (SFMT_N64)
\* stops at an assert with the state recursion not run and the instance and
\* the buffer as they were; otherwise it runs the state recursion.
C4_FailFast ==
    [][ /\ call'.op = "fill_array32" =>
             /\ FailFast(Bad32(g1, call'.size), g1, g1', out1', failed1', gen1')
             /\ FailFast(Bad32(g2, call'.size), g2, g2', out2', failed2', gen2')
        /\ call'.op = "fill_array64" =>
             /\ FailFast(Bad64(g1, call'.size), g1, g1', out1', failed1', gen1')
             /\ FailFast(Bad64(g2, call'.size), g2, g2', out2', failed2', gen2')
        /\ call'.op = "fill_cross" =>
             /\ FailFast(Bad32(g1, call'.size), g1, g1', out1', failed1', gen1')
             /\ FailFast(Bad64(g2, call'.size \div 2), g2, g2', out2', failed2', gen2')
      ]_vars

C4_Witness ==
    /\ seeded
    /\ call.op = "fill_array32"
    /\ call.size = SFMT_N32 + 2
    /\ failed1 /\ failed2
    /\ ~gen1
    /\ out1 = Buffer

\* C5: with the two instances equal after seeding, sfmt_fill_array32 of K
\* words on one and sfmt_fill_array64 of K / 2 words on the other (K a
\* multiple of 4, K >= SFMT_N32) give the same stream -- 64-bit word j is the
\* 32-bit words 2j (low) and 2j + 1 (high) -- and leave equal state words
\* and Index.
C5_CrossConsistency ==
    [][ ( /\ call'.op = "fill_cross"
          /\ seeded
          /\ OpEq(g1, g2)
          /\ call'.size % 4 = 0
          /\ call'.size >= SFMT_N32 ) =>
        ( /\ gen1' /\ gen2'
          /\ \A j \in 0..(call'.size \div 2 - 1) :
                ReadU64(out2', j) =
                    <<ReadU32(out1', 2 * j), ReadU32(out1', 2 * j + 1)>>
          /\ g1'.state = g2'.state
          /\ g1'.idx = g2'.idx )
      ]_vars

C5_Witness ==
    /\ seeded
    /\ call.op = "fill_cross"
    /\ call.size = SFMT_N32 + 4
    /\ gen1 /\ gen2
    /\ g1.state = g2.state
    /\ out1 # Buffer

\* C6: the words sfmt_init_gen_rand hands to period certification are
\* word[0] = seed and word[i] = 1812433253 * (word[i-1] XOR (word[i-1] >> 30))
\* + i mod 2^32 for i in 1..SFMT_N32-1; Index is SFMT_N32; the state after
\* the call differs from these words in at most one bit, in words 0..3.
C6_ScalarSeeding ==
    call.op = "init_gen_rand" =>
        /\ Len(preCert) = SFMT_N32
        /\ preCert[1] = call.seed
        /\ \A i \in 1..(SFMT_N32 - 1) :
              preCert[i + 1] =
                  Add32(MulConst(Xor32(preCert[i], Shr32(preCert[i], 30)), 1812433253),
                        ToU32(i))
        /\ g1.idx = SFMT_N32
        /\ \A k \in 4..(SFMT_N32 - 1) : g1.state[k + 1] = preCert[k + 1]
        /\ DiffBits(g1.state[1], preCert[1]) + DiffBits(g1.state[2], preCert[2])
             + DiffBits(g1.state[3], preCert[3]) + DiffBits(g1.state[4], preCert[4]) <= 1

C6_Witness ==
    /\ call.op = "init_gen_rand"
    /\ preCert[1] = call.seed
    /\ g1.state # preCert

\* the func1 steps a call ran after the initial mixing step
F1Step(e) == e.phase \in {1, 2}

\* the first n steps after the initial mixing step are func1 steps, the
\* rotating index advances by 1 modulo SFMT_N32 from 1, the first L of them
\* inject init_key[0..L-1] in order and the later ones the index only, and
\* there are n such steps in all
DiffusionSteps(n) ==
    LET L == Len(call.key)
    IN  /\ Len(trace) >= 1
        /\ trace[1].phase = 0
        /\ trace[1].at[1] = 0 /\ trace[1].at[2] = mid /\ trace[1].at[3] = mid + lag
        /\ Len(SelectSeq(trace, F1Step)) = n
        /\ \A t \in 1..n :
              /\ t + 1 <= Len(trace)
              /\ F1Step(trace[t + 1])
              /\ trace[t + 1].i = t % SFMT_N32
              /\ trace[t + 1].at =
                    << t % SFMT_N32, (t + mid) % SFMT_N32, (t + mid + lag) % SFMT_N32,
                       (t + SFMT_N32 - 1) % SFMT_N32 >>
              /\ trace[t + 1].r =
                    LET x == Xor32(Xor32(trace[t + 1].old[1], trace[t + 1].old[2]),
                                   trace[t + 1].old[4])
                    IN  MulConst(Xor32(x, Shr32(x, 27)), 1664525)
              /\ IF t <= L
                 THEN /\ trace[t + 1].key = t - 1
                      /\ trace[t + 1].rr =
                            Add32(trace[t + 1].r,
                                  Add32(call.key[t], ToU32(t % SFMT_N32)))
                 ELSE /\ trace[t + 1].key = -1
                      /\ trace[t + 1].rr = Add32(trace[t + 1].r, ToU32(t % SFMT_N32))

MaxOf(a, b) == IF a > b THEN a ELSE b

\* C7 as stated: after the initial mixing step sfmt_init_by_array runs
\* max(L + 1, SFMT_N32) func1 steps, the index advancing by 1 modulo SFMT_N32,
\* the first L injecting init_key[0..L-1] in order, the later ones the index.
C7_AsStated ==
    call.op = "init_by_array" =>
        DiffusionSteps(MaxOf(Len(call.key) + 1, SFMT_N32))

\* C7: after the initial mixing step sfmt_init_by_array runs
\* max(L + 1, SFMT_N32) - 1 func1 steps (the initial step is counted in
\* count), the index advancing by 1 modulo SFMT_N32 from 1, the first L
\* injecting init_key[0..L-1] in order, the later ones the index only.
C7_DiffusionSteps ==
    call.op = "init_by_array" =>
        DiffusionSteps(MaxOf(Len(call.key) + 1, SFMT_N32) - 1)

C7_Witness ==
    /\ call.op = "init_by_array"
    /\ Len(call.key) = 4
    /\ trace[5].key = 3
    /\ trace[6].key = -1
    /\ F1Step(trace[SFMT_N32])
    /\ ~F1Step(trace[SFMT_N32 + 1])

\* the steps of the final pass of a call
F2Step(e) == e.phase = 3

\* the final pass is the last SFMT_N32 steps of the call, with the rotating
\* index going on from where the func1 steps left it and the lag offsets of
\* those steps, r being func2 of the sum of the three words read
FinalPass ==
    LET first == Len(trace) - SFMT_N32
    IN  /\ first >= 1
        /\ Len(SelectSeq(trace, F2Step)) = SFMT_N32
        /\ \A t \in 1..SFMT_N32 :
              LET e == trace[first + t]
                  i == (first + t - 1) % SFMT_N32
                  x == Add32(Add32(e.old[1], e.old[2]), e.old[4])
              IN  /\ F2Step(e)
                  /\ e.at = << i, (i + mid) % SFMT_N32, (i + mid + lag) % SFMT_N32,
                               (i + SFMT_N32 - 1) % SFMT_N32 >>
                  /\ e.r = MulConst(Xor32(x, Shr32(x, 27)), 1566083941)

\* C8 as stated: the final pass runs SFMT_N32 func2 steps in the pattern of
\* the func1 steps, and every word a step changes becomes its previous
\* content XOR a value of the step (r, or r after the index was subtracted).
C8_AsStated ==
    call.op = "init_by_array" =>
        /\ FinalPass
        /\ \A t \in DOMAIN trace :
              F2Step(trace[t]) =>
                 \A p \in 1..3 :
                    trace[t].new[p] # trace[t].old[p] =>
                       \/ trace[t].new[p] = Xor32(trace[t].old[p], trace[t].r)
                       \/ trace[t].new[p] = Xor32(trace[t].old[p], trace[t].rr)

\* C8: the final pass runs SFMT_N32 func2 steps in the pattern of the func1
\* steps; each step XORs r into the word at (i + mid) mod SFMT_N32 and
\* r - i into the word at (i + mid + lag) mod SFMT_N32, and overwrites word
\* i with r - i by plain assignment.
C8_FinalPass ==
    call.op = "init_by_array" =>
        /\ FinalPass
        /\ \A t \in DOMAIN trace :
              F2Step(trace[t]) =>
                 /\ trace[t].rr = Sub32(trace[t].r, ToU32(trace[t].i))
                 /\ trace[t].new[2] = Xor32(trace[t].old[2], trace[t].r)
                 /\ trace[t].new[3] = Xor32(trace[t].old[3], trace[t].rr)
                 /\ trace[t].new[1] = trace[t].rr

C8_Witness ==
    /\ call.op = "init_by_array"
    /\ Len(call.key) = SFMT_N32 + 1
    /\ F2Step(trace[Len(trace)])
    /\ trace[Len(trace)].new[1] = trace[Len(trace)].rr
    /\ trace[Len(trace)].new[1] # Xor32(trace[Len(trace)].old[1], trace[Len(trace)].rr)

\* the first parity word that is not zero, and its lowest set bit
FirstParityWord ==
    CHOOSE w \in 0..3 :
        parity[w + 1] # Zero32 /\ \A v \in 0..(w - 1) : parity[v + 1] = Zero32

LowestSetBit(x) ==
    CHOOSE b \in 0..31 : Bit32(x, b) = 1 /\ \A c \in 0..(b - 1) : Bit32(x, c) = 0

\* C9: period certification leaves a state of parity fold 1 as it is; in a
\* state of parity fold 0 it flips exactly the lowest set bit of the first
\* non-zero parity word, in the state word of that index; Index and the
\* words of index >= 4 are untouched, and certifying again changes nothing.
C9_Certification ==
    SeedingCall =>
        /\ OddParity(preCert) => g1.state = preCert
        /\ ~OddParity(preCert) =>
              /\ \A k \in 0..(SFMT_N32 - 1) :
                    k # FirstParityWord => g1.state[k + 1] = preCert[k + 1]
              /\ \A b \in 0..31 :
                    (Bit32(g1.state[FirstParityWord + 1], b)
                        # Bit32(preCert[FirstParityWord + 1], b))
                    <=> (b = LowestSetBit(parity[FirstParityWord + 1]))
        /\ \A k \in 4..(SFMT_N32 - 1) : g1.state[k + 1] = preCert[k + 1]
        /\ g1.idx = SFMT_N32
        /\ \A arith \in BOOLEAN : period_certification(g1.state, arith) = g1.state

C9_Witness ==
    /\ call.op = "init_by_array"
    /\ ~OddParity(preCert)
    /\ g1.state # preCert
    /\ period_certification(g1.state, TRUE) = g1.state

\* the steps of a call that read init_key
KeyRead(e) == e.key # -1

\* C10: every state access of sfmt_init_by_array is at a word index in
\* 0..SFMT_N32-1 (mid and mid + lag included); init_key is read at 0..L-1,
\* each once; with L = 0 nothing of init_key is read, and every state word
\* has been written when the call returns.
C10_AccessesInRange ==
    call.op = "init_by_array" =>
        LET L     == Len(call.key)
            reads == SelectSeq(trace, KeyRead)
        IN  /\ mid \in 0..(SFMT_N32 - 1)
            /\ mid + lag \in 0..(SFMT_N32 - 1)
            /\ \A t \in DOMAIN trace :
                  \A p \in 1..4 : trace[t].at[p] \in 0..(SFMT_N32 - 1)
            /\ Len(reads) = L
            /\ \A n \in 1..L : reads[n].key = n - 1
            /\ (L = 0 => \A t \in DOMAIN trace : trace[t].key = -1)
            /\ {trace[t].at[1] : t \in {u \in DOMAIN trace : F2Step(trace[u])}}
                  = 0..(SFMT_N32 - 1)
            /\ Len(g1.state) = SFMT_N32
            /\ g1.idx = SFMT_N32

C10_Witness ==
    /\ call.op = "init_by_array"
    /\ call.key = <<>>
    /\ Len(trace) = 2 * SFMT_N32
    /\ \A t \in DOMAIN trace : trace[t].key = -1
    /\ g1.idx = SFMT_N32
====
